---- MODULE Spec2Model ----
(***************************************************************************)
(* FindCandidateWords.ipynb as a state machine.  The notebook's cells run  *)
(* top to bottom; each stage of the pipeline (constraint parsing, pattern  *)
(* generation, allowed-letter augmentation, one lookup per pattern,        *)
(* de-duplication, allowed-letter filter, report) is one action.           *)
(*                                                                         *)
(* A character is a one-character string, a word or a pattern is a         *)
(* sequence of characters (the notebook itself turns words into rows of    *)
(* characters).  Positions are kept 0-based as in the notebook; a          *)
(* sequence is indexed at position + 1.  A (letter, position) pair is the  *)
(* tuple <<letter, position>>.                                             *)
(***************************************************************************)
EXTENDS Integers, Sequences, FiniteSets

VARIABLES
    word_length,            \* input: length of the word
    known_letters_loc,      \* input: list of (letter, position), -1 = unknown
    avail_base,             \* input: avail_letters as the caller gave it
    service,                \* the answers the lookup service can give
    pc,                     \* the stage about to run
    fixed_letters,          \* cell 6
    dict_letters,           \* cell 7
    known_pattern,          \* cell 8
    unknown_pos,            \* cell 9
    unknown_letters,        \* cell 10
    known_patterns,         \* cell 13
    avail_letters,          \* cell 5, extended in cell 15
    p_idx,                  \* how many patterns the lookup loop has done
    lookups,                \* the patterns requested from the service so far
    candidate_words,        \* cell 16
    candidate_arr,          \* cell 17
    filtered_candidate_arr, \* cell 18, narrowed again in cell 19
    list_candidate_words,   \* cell 19
    output                  \* what cell 19 prints

vars == <<word_length, known_letters_loc, avail_base, service, pc, fixed_letters,
          dict_letters, known_pattern, unknown_pos, unknown_letters,
          known_patterns, avail_letters, p_idx, lookups, candidate_words,
          candidate_arr, filtered_candidate_arr, list_candidate_words, output>>

---------------------------------------------------------------------------
(* Bounds of the general specification.                                    *)

MaxWordLength == 3

MaxKnown == 2

(* Letters the known-letter constraints are drawn from, and the letters    *)
(* the service's words are made of.                                        *)
KnownAlphabet == {"a", "b"}

WordAlphabet == {"a", "b", "c"}

---------------------------------------------------------------------------
(* Characters in code-point order: Python compares strings, and numpy      *)
(* sorts rows of characters, by code point.                                *)

CodePoints ==
    <<"?",
      "A", "B", "C", "D", "E", "F", "G", "H", "I", "J", "K", "L", "M",
      "N", "O", "P", "Q", "R", "S", "T", "U", "V", "W", "X", "Y", "Z",
      "a", "b", "c", "d", "e", "f", "g", "h", "i", "j", "k", "l", "m",
      "n", "o", "p", "q", "r", "s", "t", "u", "v", "w", "x", "y", "z">>

ord(c) == CHOOSE i \in DOMAIN CodePoints : CodePoints[i] = c

Range(s) == {s[i] : i \in DOMAIN s}

Min(a, b) == IF a <= b THEN a ELSE b

RECURSIVE Flatten(_)
Flatten(ss) == IF ss = <<>> THEN <<>> ELSE Head(ss) \o Flatten(Tail(ss))

---------------------------------------------------------------------------
(* sorted(..., key=lambda k: k[1]): a stable sort on the position.         *)

RECURSIVE InsertByPos(_, _)
InsertByPos(sorted, x) ==
    IF sorted = <<>> THEN <<x>>
    ELSE LET last == sorted[Len(sorted)]
         IN  IF last[2] <= x[2]
             THEN Append(sorted, x)
             ELSE Append(InsertByPos(SubSeq(sorted, 1, Len(sorted) - 1), x), last)

RECURSIVE SortedByPos(_)
SortedByPos(s) ==
    IF s = <<>> THEN <<>>
    ELSE InsertByPos(SortedByPos(SubSeq(s, 1, Len(s) - 1)), s[Len(s)])

IsFixed(l) == l[2] >= 0

IsFloating(l) == l[2] < 0

(* cell 6 *)
FixedLetters(kll) == SortedByPos(SelectSeq(kll, IsFixed))

(* cell 7: a dict comprehension; a later item with the same key replaces   *)
(* an earlier one.                                                         *)
DictLetters(fl) ==
    [p \in {fl[i][2] : i \in DOMAIN fl} |->
        LET last == CHOOSE i \in DOMAIN fl :
                        /\ fl[i][2] = p
                        /\ \A j \in DOMAIN fl : fl[j][2] = p => j <= i
        IN  fl[last][1]]

(* cell 8 *)
KnownPattern(dl, wl) ==
    [i \in 1..wl |-> IF (i - 1) \in DOMAIN dl THEN dl[i - 1] ELSE "?"]

(* Mutant of UnknownPos: the fixed positions are not left out.             *)
UnknownPosAll(dl, wl) == [i \in 1..wl |-> i - 1]

(* cell 9 *)
RECURSIVE RangeNotIn(_, _, _)
RangeNotIn(i, wl, keys) ==
    IF i >= wl THEN <<>>
    ELSE (IF i \in keys THEN <<>> ELSE <<i>>) \o RangeNotIn(i + 1, wl, keys)

UnknownPos(dl, wl) == RangeNotIn(0, wl, DOMAIN dl)

(* Mutant of UnknownLetters: the letters are not restricted to those of    *)
(* unknown position.                                                       *)
UnknownLettersAll(kll) == [i \in DOMAIN kll |-> kll[i][1]]

(* cell 10 *)
UnknownLetters(kll) ==
    LET s == SortedByPos(SelectSeq(kll, IsFloating))
    IN  [i \in DOMAIN s |-> s[i][1]]

---------------------------------------------------------------------------
(* itertools.combinations(s, k): the k-subsequences of s in lexicographic  *)
(* order of their indices.                                                 *)

RECURSIVE combinations(_, _)
combinations(s, k) ==
    IF k = 0 THEN << <<>> >>
    ELSE IF Len(s) < k THEN <<>>
    ELSE LET with == combinations(Tail(s), k - 1)
         IN  [i \in DOMAIN with |-> <<Head(s)>> \o with[i]]
             \o combinations(Tail(s), k)

(* s without its i-th element *)
Without(s, i) == SubSeq(s, 1, i - 1) \o SubSeq(s, i + 1, Len(s))

(* itertools.permutations(s): in lexicographic order of the indices.       *)
RECURSIVE permutations(_)
permutations(s) ==
    IF s = <<>> THEN << <<>> >>
    ELSE Flatten([i \in DOMAIN s |->
            LET rest == permutations(Without(s, i))
            IN  [j \in DOMAIN rest |-> <<s[i]>> \o rest[j]]])

(* Mutant of UnknownCombos: the number of letters to place is clamped to   *)
(* the number of open positions.                                           *)
UnknownCombosClamped(up, ul) == combinations(up, Min(Len(up), Len(ul)))

(* cell 11 *)
UnknownCombos(up, ul) == combinations(up, Len(ul))

(* Mutant of PermsUnknownCombos: each combination is used in its own order *)
(* only.                                                                   *)
PermsIdentityOnly(combos) == [c \in DOMAIN combos |-> <<combos[c]>>]

(* cell 12 *)
PermsUnknownCombos(combos) == [c \in DOMAIN combos |-> permutations(combos[c])]

(* cell 13, inner loop: for x in zip(perm, unknown_letters):               *)
(*                          tmp_pattern[x[0]] = x[1]                       *)
RECURSIVE PlaceLetters(_, _, _, _)
PlaceLetters(tmp, perm, ul, i) ==
    IF i > Min(Len(perm), Len(ul)) THEN tmp
    ELSE PlaceLetters([tmp EXCEPT ![perm[i] + 1] = ul[i]], perm, ul, i + 1)

(* cell 13 *)
KnownPatterns(kp, pcombos, ul) ==
    Flatten([c \in DOMAIN pcombos |->
        [p \in DOMAIN pcombos[c] |-> PlaceLetters(kp, pcombos[c][p], ul, 1)]])

(* Mutant of KnownLetters: only the letters of known position.             *)
KnownLettersFixedOnly(kll) ==
    LET s == SelectSeq(kll, IsFixed) IN [i \in DOMAIN s |-> s[i][1]]

(* cell 14 *)
KnownLetters(kll) == [i \in DOMAIN kll |-> kll[i][1]]

---------------------------------------------------------------------------
(* cell 16: the words of the right length in one answer.                   *)
GoodWords(words, wl) == SelectSeq(words, LAMBDA w : Len(w) = wl)

(* Lexicographic order on rows of equal length, by code point.             *)
RECURSIVE RowLess(_, _)
RowLess(x, y) ==
    IF x = <<>> \/ y = <<>> THEN FALSE
    ELSE IF ord(Head(x)) # ord(Head(y)) THEN ord(Head(x)) < ord(Head(y))
    ELSE RowLess(Tail(x), Tail(y))

RECURSIVE SortRows(_)
SortRows(S) ==
    IF S = {} THEN <<>>
    ELSE LET m == CHOOSE x \in S : \A y \in S : ~RowLess(y, x)
         IN  <<m>> \o SortRows(S \ {m})

(* Mutant of UniqueRows: the distinct rows in order of first appearance.   *)
RECURSIVE FirstOccurrences(_)
FirstOccurrences(words) ==
    IF words = <<>> THEN <<>>
    ELSE LET front == FirstOccurrences(SubSeq(words, 1, Len(words) - 1))
             w == words[Len(words)]
         IN  IF w \in Range(front) THEN front ELSE Append(front, w)

UniqueRowsUnsorted(words) == FirstOccurrences(words)

(* str.lower on one character, and on a word.                              *)
LowerChar(c) ==
    LET i == ord(c)
    IN  IF i >= ord("A") /\ i <= ord("Z") THEN CodePoints[i + (ord("a") - ord("A"))]
        ELSE c

Lower(w) == [i \in DOMAIN w |-> LowerChar(w[i])]

(* Mutant of UniqueRows: the rows are put in lower case before they are    *)
(* compared.                                                               *)
UniqueRowsLower(words) == SortRows({Lower(w) : w \in Range(words)})

(* cell 17: np.unique(np.array([list(w) for w in candidate_words]), axis=0) *)
(* - the distinct rows, sorted.                                            *)
UniqueRows(words) == SortRows(Range(words))

(* cell 18 *)
AllowedRows(arr, avail) ==
    SelectSeq(arr, LAMBDA x : Range(x) \ Range(avail) = {})

(* cell 19, one turn of the loop over fixed_letters:                       *)
(*   arr[np.argwhere(arr[:, f[1]] == f[0]).reshape(1, -1)[0]]              *)
RowsWithLetterAt(arr, f) == SelectSeq(arr, LAMBDA x : x[f[2] + 1] = f[1])

RECURSIVE ApplyFixed(_, _)
ApplyFixed(arr, fl) ==
    IF fl = <<>> THEN arr
    ELSE ApplyFixed(RowsWithLetterAt(arr, Head(fl)), Tail(fl))

(* cell 19: [''.join(l) for l in arr]; a word is its row of characters.    *)
ListCandidateWords(arr) == arr

---------------------------------------------------------------------------
(* The inputs and the service of the general specification.                *)

SeqsUpTo(S, n) == UNION {[1..k -> S] : k \in 0..n}

Constraints(wl) == KnownAlphabet \X (-1..wl)

(* Words of length n: one letter repeated, with any letter last.           *)
Words(n) ==
    {[i \in 1..n |-> IF i = n THEN y ELSE x] : x \in WordAlphabet, y \in WordAlphabet}

Uniform(n, x) == [i \in 1..n |-> x]

(* The answers the service may give to a lookup: one word, or a few words  *)
(* out of order, of other lengths, repeated, or in another letter case.    *)
Responses(wl) ==
    {<<w>> : w \in Words(wl)}
    \cup {<<Uniform(wl, "b"), Uniform(wl, "a")>>,
          <<Uniform(wl + 1, "a"), Uniform(wl, "a"), Uniform(wl, "a")>>,
          <<Uniform(wl, "a"), Uniform(wl, "A")>>}

NoOutput == [kind |-> "none"]

Unset ==
    /\ pc = "parse"
    /\ fixed_letters = <<>>
    /\ dict_letters = <<>>
    /\ known_pattern = <<>>
    /\ unknown_pos = <<>>
    /\ unknown_letters = <<>>
    /\ known_patterns = <<>>
    /\ p_idx = 0
    /\ lookups = <<>>
    /\ candidate_words = <<>>
    /\ candidate_arr = <<>>
    /\ filtered_candidate_arr = <<>>
    /\ list_candidate_words = <<>>
    /\ output = NoOutput

Init ==
    /\ word_length \in 1..MaxWordLength
    /\ known_letters_loc \in SeqsUpTo(Constraints(word_length), MaxKnown)
    /\ avail_base \in {<<>>, <<"c">>}
    /\ avail_letters = avail_base
    /\ service \in {{<<>>, r} : r \in Responses(word_length)}
    /\ Unset

---------------------------------------------------------------------------
(* cells 6-10 *)
ParseConstraints ==
    /\ pc = "parse"
    /\ fixed_letters' = FixedLetters(known_letters_loc)
    /\ dict_letters' = DictLetters(fixed_letters')
    /\ known_pattern' = KnownPattern(dict_letters', word_length)
    /\ unknown_pos' = UnknownPos(dict_letters', word_length)
    /\ unknown_letters' = UnknownLetters(known_letters_loc)
    /\ pc' = "generate"
    /\ UNCHANGED <<word_length, known_letters_loc, avail_base, service,
                   known_patterns, avail_letters, p_idx, lookups, candidate_words,
                   candidate_arr, filtered_candidate_arr, list_candidate_words,
                   output>>

(* cells 11-13 *)
GeneratePatterns ==
    /\ pc = "generate"
    /\ known_patterns' =
         KnownPatterns(known_pattern,
                       PermsUnknownCombos(UnknownCombos(unknown_pos, unknown_letters)),
                       unknown_letters)
    /\ pc' = "augment"
    /\ UNCHANGED <<word_length, known_letters_loc, avail_base, service,
                   fixed_letters, dict_letters, known_pattern, unknown_pos,
                   unknown_letters, avail_letters, p_idx, lookups, candidate_words,
                   candidate_arr, filtered_candidate_arr, list_candidate_words,
                   output>>

(* cells 14-15 *)
AugmentAllowed ==
    /\ pc = "augment"
    /\ avail_letters' = avail_letters \o KnownLetters(known_letters_loc)
    /\ pc' = "lookup"
    /\ UNCHANGED <<word_length, known_letters_loc, avail_base, service,
                   fixed_letters, dict_letters, known_pattern, unknown_pos,
                   unknown_letters, known_patterns, p_idx, lookups,
                   candidate_words, candidate_arr, filtered_candidate_arr,
                   list_candidate_words, output>>

(* cell 16, one turn of the loop: the request is answered *)
Lookup ==
    /\ pc = "lookup"
    /\ p_idx < Len(known_patterns)
    /\ \E words \in service :
         LET good_words == GoodWords(words, word_length)
         IN  candidate_words' =
               IF Len(good_words) > 0 THEN candidate_words \o good_words
               ELSE candidate_words
    /\ lookups' = Append(lookups, known_patterns[p_idx + 1])
    /\ p_idx' = p_idx + 1
    /\ UNCHANGED <<word_length, known_letters_loc, avail_base, service, pc,
                   fixed_letters, dict_letters, known_pattern, unknown_pos,
                   unknown_letters, known_patterns, avail_letters, candidate_arr,
                   filtered_candidate_arr, list_candidate_words, output>>

(* Mutant of LookupFails: the failure is caught, the pattern skipped and    *)
(* the loop goes on.                                                       *)
LookupFailsSkipped ==
    /\ pc = "lookup"
    /\ p_idx < Len(known_patterns)
    /\ lookups' = Append(lookups, known_patterns[p_idx + 1])
    /\ p_idx' = p_idx + 1
    /\ output' = [kind |-> "exception", name |-> "ConnectionError"]
    /\ UNCHANGED <<word_length, known_letters_loc, avail_base, service, pc,
                   fixed_letters, dict_letters, known_pattern, unknown_pos,
                   unknown_letters, known_patterns, avail_letters,
                   candidate_words, candidate_arr, filtered_candidate_arr,
                   list_candidate_words>>

(* cell 16, one turn of the loop: requests.get raises; nothing catches it  *)
LookupFails ==
    /\ pc = "lookup"
    /\ p_idx < Len(known_patterns)
    /\ lookups' = Append(lookups, known_patterns[p_idx + 1])
    /\ pc' = "error"
    /\ output' = [kind |-> "exception", name |-> "ConnectionError"]
    /\ UNCHANGED <<word_length, known_letters_loc, avail_base, service,
                   fixed_letters, dict_letters, known_pattern, unknown_pos,
                   unknown_letters, known_patterns, avail_letters, p_idx,
                   candidate_words, candidate_arr, filtered_candidate_arr,
                   list_candidate_words>>

(* cell 16, the loop is over; cell 17 *)
Unique ==
    /\ pc = "lookup"
    /\ p_idx = Len(known_patterns)
    /\ candidate_arr' = UniqueRows(candidate_words)
    /\ pc' = "filter"
    /\ UNCHANGED <<word_length, known_letters_loc, avail_base, service,
                   fixed_letters, dict_letters, known_pattern, unknown_pos,
                   unknown_letters, known_patterns, avail_letters, p_idx, lookups,
                   candidate_words, filtered_candidate_arr, list_candidate_words,
                   output>>

(* cell 18 *)
AllowedFilter ==
    /\ pc = "filter"
    /\ filtered_candidate_arr' = AllowedRows(candidate_arr, avail_letters)
    /\ pc' = "report"
    /\ UNCHANGED <<word_length, known_letters_loc, avail_base, service,
                   fixed_letters, dict_letters, known_pattern, unknown_pos,
                   unknown_letters, known_patterns, avail_letters, p_idx, lookups,
                   candidate_words, candidate_arr, list_candidate_words, output>>

(* cell 19.  Indexing column f[1] of an array with word_length columns     *)
(* raises IndexError when f[1] >= word_length, before anything is printed. *)
Report ==
    /\ pc = "report"
    /\ IF Len(filtered_candidate_arr) < 1
       THEN /\ output' = [kind |-> "nomatch", letters |-> avail_letters]
            /\ pc' = "done"
            /\ UNCHANGED <<list_candidate_words, filtered_candidate_arr>>
       ELSE /\ list_candidate_words' = ListCandidateWords(filtered_candidate_arr)
            /\ IF \E i \in DOMAIN fixed_letters : fixed_letters[i][2] >= word_length
               THEN /\ output' = [kind |-> "exception", name |-> "IndexError"]
                    /\ pc' = "error"
                    /\ filtered_candidate_arr' =
                         ApplyFixed(filtered_candidate_arr,
                                    SelectSeq(fixed_letters,
                                              LAMBDA f : f[2] < word_length))
               ELSE /\ filtered_candidate_arr' =
                         ApplyFixed(filtered_candidate_arr, fixed_letters)
                    /\ output' = [kind |-> "words", words |-> list_candidate_words']
                    /\ pc' = "done"
    /\ UNCHANGED <<word_length, known_letters_loc, avail_base, service,
                   fixed_letters, dict_letters, known_pattern, unknown_pos,
                   unknown_letters, known_patterns, avail_letters, p_idx, lookups,
                   candidate_words, candidate_arr>>

Next ==
    \/ ParseConstraints
    \/ GeneratePatterns
    \/ AugmentAllowed
    \/ Lookup
    \/ LookupFails
    \/ Unique
    \/ AllowedFilter
    \/ Report

Spec == Init /\ [][Next]_vars

---------------------------------------------------------------------------
(* The notebook's own example (cell 5 and the recorded output of cell 16): *)
(* the inputs, and a service that gives the recorded answers.              *)

teiid == <<"t", "e", "i", "i", "d">>
teind == <<"t", "e", "i", "n", "d">>
tepid == <<"t", "e", "p", "i", "d">>
fetid == <<"f", "e", "t", "i", "d">>
betid == <<"b", "e", "t", "i", "d">>
netid == <<"n", "e", "t", "i", "d">>

InitA ==
    /\ word_length = 5
    /\ known_letters_loc = << <<"e", 1>>, <<"d", 4>>, <<"i", -1>>, <<"t", -1>> >>
    /\ avail_base = <<"q", "w", "f", "h", "j", "k", "z", "x", "c", "v", "b">>
    /\ avail_letters = avail_base
    /\ service = {<<>>, <<teiid, teind>>, <<tepid, teiid>>, <<fetid, betid, netid>>}
    /\ Unset

SpecA == InitA /\ [][Next]_vars

(* The example of the closing cell, with a service that gives the words    *)
(* the earlier notebook recorded for these letters, in three answers.      *)

calic == <<"c", "a", "l", "i", "c">>
alice == <<"a", "l", "i", "c", "e">>
lilac == <<"l", "i", "l", "a", "c">>
iliac == <<"i", "l", "i", "a", "c">>
ileac == <<"i", "l", "e", "a", "c">>
cavil == <<"c", "a", "v", "i", "l">>
cilia == <<"c", "i", "l", "i", "a">>
claim == <<"c", "l", "a", "i", "m">>
clair == <<"c", "l", "a", "i", "r">>
linac == <<"l", "i", "n", "a", "c">>
lucia == <<"l", "u", "c", "i", "a">>

RecordedPool == {calic, alice, lilac, iliac, ileac, cavil, cilia, claim, clair,
                 linac, lucia}

InitB ==
    /\ word_length = 5
    /\ known_letters_loc = << <<"a", -1>>, <<"i", 1>>, <<"c", 4>>, <<"l", -1>> >>
    /\ avail_base = <<"q", "z", "x", "j">>
    /\ avail_letters = avail_base
    /\ service = {<<>>,
                  <<calic, alice, lilac, iliac, ileac>>,
                  <<cavil, cilia, claim, clair>>,
                  <<cilia, lilac, iliac, linac, lucia>>}
    /\ Unset

SpecB == InitB /\ [][Next]_vars

(* The earlier notebook builds its patterns from the permutations of all   *)
(* the known letters, joined and wrapped by '*'.                           *)
LegacyKnownCombos(kll) == permutations(KnownLetters(kll))

RECURSIVE StarJoin(_)
StarJoin(c) ==
    IF c = <<>> THEN <<>>
    ELSE IF Len(c) = 1 THEN c
    ELSE <<Head(c), "*">> \o StarJoin(Tail(c))

LegacyKnownPatterns(combos) ==
    [i \in DOMAIN combos |-> <<"*">> \o StarJoin(combos[i]) \o <<"*">>]

---------------------------------------------------------------------------
(* The inputs seen through the constraints themselves.                     *)

FixedConstraints == {known_letters_loc[i] : i \in {j \in DOMAIN known_letters_loc :
                                                     known_letters_loc[j][2] >= 0}}

FloatingCount == Cardinality({i \in DOMAIN known_letters_loc :
                                known_letters_loc[i][2] < 0})

FixedIndexes == {i \in DOMAIN known_letters_loc : known_letters_loc[i][2] >= 0}

OpenPositions == {p \in 0..(word_length - 1) :
                    \A f \in FixedConstraints : f[2] # p}

AugmentedAllowedSet ==
    Range(avail_base) \cup {known_letters_loc[i][1] : i \in DOMAIN known_letters_loc}

HasOutOfRange == \E f \in FixedConstraints : f[2] >= word_length

HasConflict == \E f \in FixedConstraints, g \in FixedConstraints :
                   f[2] = g[2] /\ f[1] # g[1]

(* in-range, pairwise distinct fixed positions *)
ValidInput ==
    /\ ~HasOutOfRange
    /\ \A i \in FixedIndexes, j \in FixedIndexes :
          known_letters_loc[i][2] = known_letters_loc[j][2] => i = j

Generated == pc \notin {"parse", "generate"}

(* known_patterns is written once, by GeneratePatterns *)
JustGenerated == pc = "augment"

Reported == pc = "done" /\ output.kind = "words"

(* a word carries every fixed letter at its position *)
MeetsFixed(w) == \A f \in FixedConstraints :
                    f[2] + 1 \in DOMAIN w /\ w[f[2] + 1] = f[1]

(* the words that survive the length, allowed-letter and fixed-position    *)
(* filters                                                                 *)
FinalCandidates ==
    {w \in Range(candidate_words) :
        /\ Len(w) = word_length
        /\ Range(w) \subseteq AugmentedAllowedSet
        /\ MeetsFixed(w)}

RECURSIVE Factorial(_)
Factorial(n) == IF n <= 0 THEN 1 ELSE n * Factorial(n - 1)

Choose(n, k) == Factorial(n) \div (Factorial(k) * Factorial(n - k))

---------------------------------------------------------------------------
(* C1: every word the run reports as a candidate has, for every fixed      *)
(* constraint (letter, pos), the character letter at index pos, whatever   *)
(* the lookups answered.                                                   *)
C1_ReportedWordsMeetFixed ==
    (ValidInput /\ Reported) =>
        \A i \in DOMAIN output.words : MeetsFixed(output.words[i])

(* C2: every reported word is made only of letters of the augmented        *)
(* allowed set (the caller's allowed letters and the letter of every       *)
(* constraint, fixed or floating), and the allowed-letter filter keeps     *)
(* exactly the right-length words made of those letters: none is rejected  *)
(* for containing a known letter.                                          *)
C2_AllowedSetFilter ==
    /\ Reported =>
          \A i \in DOMAIN output.words :
              Range(output.words[i]) \subseteq AugmentedAllowedSet
    /\ pc \in {"report", "done", "error"} /\ output.kind # "exception" =>
          Range(IF pc = "report" THEN filtered_candidate_arr
                ELSE list_candidate_words)
            = {w \in Range(candidate_words) : Range(w) \subseteq AugmentedAllowedSet}

C2_Witness ==
    /\ Reported
    /\ \E i \in DOMAIN output.words :
          Range(output.words[i]) \ Range(avail_base) # {}
    /\ Range(candidate_arr) \ Range(output.words) # {}

(* C3: for fixed constraints at in-range, distinct positions and k         *)
(* floating letters, the generator emits C(n, k) * k! patterns, n the      *)
(* number of positions no fixed constraint claims, when k <= n, and none   *)
(* when k > n.                                                             *)
C3_PatternCount ==
    (ValidInput /\ JustGenerated) =>
        LET n == word_length - Cardinality(FixedIndexes)
            k == FloatingCount
        IN  Len(known_patterns) = IF k <= n THEN Choose(n, k) * Factorial(k) ELSE 0

C3_Witness ==
    /\ ValidInput /\ JustGenerated
    /\ FloatingCount = 2
    /\ word_length = 3
    /\ Len(known_patterns) = 6

(* C4: for valid inputs every pattern has length word_length, each fixed   *)
(* letter at its position, each floating letter at a position of its own   *)
(* that no fixed constraint claims, and '?' everywhere else.               *)
C4_PatternShape ==
    (ValidInput /\ JustGenerated) =>
        \A n \in DOMAIN known_patterns :
            LET p == known_patterns[n]
                floating == UnknownLetters(known_letters_loc)
                k == Len(floating)
            IN  /\ Len(p) = word_length
                /\ MeetsFixed(p)
                /\ \E at \in [1..k -> OpenPositions] :
                      /\ \A i \in 1..k, j \in 1..k : at[i] = at[j] => i = j
                      /\ \A i \in 1..k : p[at[i] + 1] = floating[i]
                      /\ \A q \in OpenPositions :
                            (\A i \in 1..k : at[i] # q) => p[q + 1] = "?"
                /\ Cardinality({i \in DOMAIN p : p[i] = "?"})
                     = word_length - Cardinality(FixedIndexes) - k

C4_Witness ==
    /\ ValidInput /\ JustGenerated
    /\ FloatingCount = 1
    /\ Cardinality(FixedIndexes) = 1
    /\ word_length = 3
    /\ \E n \in DOMAIN known_patterns :
          known_patterns[n] = <<"b", "a", "?">>

(* C5: in the notebook's example the generator emits exactly iet?d,        *)
(* tei?d, ie?td, te?id, ?eitd, ?etid in that order, and when the answers   *)
(* aggregate to {teiid, teind, tepid, fetid, betid, netid} the run reports *)
(* exactly betid, fetid, teiid.                                            *)
C5_ScenarioA ==
    /\ Generated =>
          known_patterns = << <<"i", "e", "t", "?", "d">>,
                              <<"t", "e", "i", "?", "d">>,
                              <<"i", "e", "?", "t", "d">>,
                              <<"t", "e", "?", "i", "d">>,
                              <<"?", "e", "i", "t", "d">>,
                              <<"?", "e", "t", "i", "d">> >>
    /\ (pc = "done"
        /\ Range(candidate_words) = {teiid, teind, tepid, fetid, betid, netid}) =>
          output = [kind |-> "words", words |-> <<betid, fetid, teiid>>]

C5_Witness ==
    /\ pc = "done"
    /\ candidate_words = <<teiid, teind, tepid, teiid, fetid, betid, netid>>
    /\ lookups = known_patterns
    /\ output.kind = "words"

(* C6: in the closing cell's example the generator produces 24 patterns.   *)
C6_TwentyFourPatterns ==
    Generated => Len(known_patterns) = 24

(* C6 as amended: the generator produces 6 patterns, C(3, 2) * 2!; 24 is   *)
(* the number of permutations of all 4 known letters, which the earlier    *)
(* notebook turns into one pattern each.                                   *)
C6_SixPatterns ==
    Generated =>
        /\ Len(known_patterns) = 6
        /\ Len(LegacyKnownPatterns(LegacyKnownCombos(known_letters_loc))) = 24

C6_Witness ==
    /\ Generated
    /\ Len(known_patterns) = 6
    /\ known_patterns[1] = <<"a", "i", "l", "?", "c">>
    /\ LegacyKnownPatterns(LegacyKnownCombos(known_letters_loc))[1]
         = <<"*", "a", "*", "i", "*", "c", "*", "l", "*">>

(* C7: in the closing cell's example, when the answers aggregate to the    *)
(* recorded pool, the run displays lilac as the only candidate word.       *)
C7_OnlyLilac ==
    (pc = "done" /\ Range(candidate_words) = RecordedPool) =>
        output = [kind |-> "words", words |-> <<lilac>>]

C9_ImpossibleConstraintSet ==
    FloatingCount > Cardinality(OpenPositions) =>
        /\ known_patterns = <<>>
        /\ lookups = <<>>
        /\ pc # "error"
        /\ output.kind # "exception"
        /\ pc \in {"report", "done"} => filtered_candidate_arr = <<>>
        /\ pc = "done" =>
              /\ output = [kind |-> "nomatch", letters |-> avail_letters]
              /\ list_candidate_words = <<>>

C9_Witness ==
    /\ FloatingCount > Cardinality(OpenPositions)
    /\ Cardinality(OpenPositions) > 0
    /\ pc = "done"
    /\ output.kind = "nomatch"

(* C10: the run reports no match exactly when no word survives the length, *)
(* allowed-letter and fixed-position filters; it never reports a word list *)
(* when none of the words satisfies the fixed constraints.                 *)
C10_NoMatchIffNoCandidate ==
    (ValidInput /\ pc = "done") =>
        /\ output.kind = "nomatch" <=> FinalCandidates = {}
        /\ output.kind = "words" => output.words # <<>>

(* C11: patterns are looked up one at a time in generation order, and a    *)
(* lookup that fails with a transport error ends the run there: no later   *)
(* pattern is looked up, no filtering step runs, and neither a word list   *)
(* nor the no-match message is reported.                                   *)
TransportError == [kind |-> "exception", name |-> "ConnectionError"]

C11_TransportErrorAborts ==
    /\ Len(lookups) <= Len(known_patterns)
    /\ lookups = SubSeq(known_patterns, 1, Len(lookups))
    /\ output # TransportError => Len(lookups) = p_idx
    /\ output = TransportError =>
          /\ pc = "error"
          /\ Len(lookups) = p_idx + 1
          /\ candidate_arr = <<>>
          /\ filtered_candidate_arr = <<>>
          /\ list_candidate_words = <<>>
    /\ output.kind \in {"words", "nomatch"} =>
          /\ lookups = known_patterns
          /\ pc = "done"

C11_Witness ==
    /\ output = TransportError
    /\ pc = "error"
    /\ candidate_words # <<>>
    /\ Len(lookups) >= 2
    /\ Len(lookups) < Len(known_patterns)

(* C12: the de-duplication step reduces the aggregated words of the right  *)
(* length to unique letter sequences in lower case: a word returned by     *)
(* several patterns, or in different letter casings, is kept once.         *)
Deduplicated == pc \in {"filter", "report", "done"}

NoRowTwice(arr) == \A i \in DOMAIN arr, j \in DOMAIN arr : arr[i] = arr[j] => i = j

C12_LowercaseUnique ==
    Deduplicated =>
        /\ Range(candidate_arr) = {Lower(w) : w \in Range(candidate_words)}
        /\ NoRowTwice(candidate_arr)

(* C12 as amended: the de-duplication step reduces the aggregated words to *)
(* unique letter sequences exactly as the service returned them, without   *)
(* changing their case: a word returned by several patterns is kept and    *)
(* reported once, two rows are merged only when their full ordered letter  *)
(* sequences are equal, and two casings of a word stay two rows.           *)
C12_ExactUnique ==
    /\ Deduplicated =>
          /\ Range(candidate_arr) = Range(candidate_words)
          /\ NoRowTwice(candidate_arr)
    /\ Reported => NoRowTwice(output.words)

C12_Witness ==
    /\ Reported
    /\ Len(candidate_words) > Cardinality(Range(candidate_words))
    /\ \E i \in DOMAIN candidate_arr, j \in DOMAIN candidate_arr :
          /\ candidate_arr[i] # candidate_arr[j]
          /\ Lower(candidate_arr[i]) = Lower(candidate_arr[j])
    /\ \E i \in DOMAIN output.words :
          Cardinality({n \in DOMAIN candidate_words :
                          candidate_words[n] = output.words[i]}) > 1

====
